---- MODULE Spec2Model ----
(***************************************************************************)
(* A model of HttpClient, the JSON-RPC-over-HTTP client of the A2A         *)
(* protocol: the unary response decoder (_handleJsonResponse), the SSE     *)
(* streaming decoder (_handleStreamingResponse) behind sendTaskSubscribe   *)
(* and resubscribeTask, and the agent-card cache (agentCard, supports).    *)
(*                                                                         *)
(* Texts (response bodies, stream chunks, the decoder's buffer) are        *)
(* sequences of one-character strings.  JavaScript values are records      *)
(* tagged by their type in field t; an Error object is a record with the   *)
(* fields name, code, message and data.                                    *)
(***************************************************************************)
EXTENDS Integers, Sequences, FiniteSets, TLC

(***************************************************************************)
(* Bounds of the model.                                                    *)
(***************************************************************************)
\* The longest stream the peer sends, in frames.
MaxFrames == 3
\* The longest chunk one reader.read() delivers, short of the whole rest.
MaxChunk == 2
\* The number of agentCard()/supports() calls one client instance makes.
MaxCardCalls == 2

(***************************************************************************)
(* JavaScript values.                                                      *)
(***************************************************************************)
Undefined == [t |-> "undefined"]
Null == [t |-> "null"]
Num(n) == [t |-> "number", n |-> n]
Str(s) == [t |-> "string", s |-> s]
Bool(b) == [t |-> "boolean", b |-> b]
Arr == [t |-> "array"]
Obj(members) == [t |-> "object", o |-> members]

\* typeof v === "object": true of objects, arrays and null.
TypeofObject(v) == v.t \in {"object", "array", "null"}

\* The truthiness `if (v)` and `!!v` test.
Truthy(v) ==
    CASE v.t \in {"undefined", "null"} -> FALSE
      [] v.t = "number" -> v.n # 0
      [] v.t = "string" -> v.s # ""
      [] v.t = "boolean" -> v.b
      [] OTHER -> TRUE

\* `key in v`, for a v that is an object or an array.
HasKey(v, key) == v.t = "object" /\ key \in DOMAIN v.o

\* v.key, for a v that is neither null nor undefined (on those the access
\* throws a TypeError, which the callers model).
Get(v, key) == IF HasKey(v, key) THEN v.o[key] ELSE Undefined

\* The code of the errors the client synthesizes itself.
InternalErrorCode == -32603

\* new RpcError(code, message, data), and new Error(message).
RpcError(code, message, data) ==
    [name |-> "RpcError", code |-> code, message |-> message, data |-> data]
PlainError(message) ==
    [name |-> "Error", code |-> Undefined, message |-> Str(message), data |-> Undefined]
\* The error JSON.parse throws on a text that is no JSON text; the message
\* is the engine's, which tells the end of the input from a character that
\* cannot go on the text (here the second character of an object that is no
\* quote nor closing brace).
SyntaxError(text) ==
    [name |-> "SyntaxError", code |-> Undefined,
     message |-> Str(IF text = <<>> THEN "Unexpected end of JSON input"
                     ELSE "Expected property name or '}' in JSON at position 1"),
     data |-> Undefined]
\* v.error on a null v throws a TypeError.
TypeError ==
    [name |-> "TypeError", code |-> Undefined,
     message |-> Str("Cannot read properties of null (reading 'error')"), data |-> Undefined]
NoError == [name |-> "none"]

\* error instanceof RpcError; error instanceof Error holds of every error here.
IsRpcError(e) == e.name = "RpcError"

(***************************************************************************)
(* Texts.                                                                  *)
(***************************************************************************)
LF == "\n"
CR == "\r"
Whitespace == {" ", "\t", LF, CR}

RECURSIVE Text(_)
\* The string a sequence of characters spells.
Text(s) == IF s = <<>> THEN "" ELSE Head(s) \o Text(Tail(s))

\* s.startsWith(p)
StartsWith(s, p) == Len(s) >= Len(p) /\ SubSeq(s, 1, Len(p)) = p

RECURSIVE TrimStart(_)
TrimStart(s) ==
    IF s # <<>> /\ Head(s) \in Whitespace THEN TrimStart(Tail(s)) ELSE s

RECURSIVE TrimEnd(_)
TrimEnd(s) ==
    IF s # <<>> /\ s[Len(s)] \in Whitespace
    THEN TrimEnd(SubSeq(s, 1, Len(s) - 1)) ELSE s

\* s.trim()
Trim(s) == TrimEnd(TrimStart(s))

\* s.replace(/\r/g, "")
RemoveCR(s) == SelectSeq(s, LAMBDA c : c # CR)

\* The index of the first "\n\n" of s, 0 when there is none.
FindBlank(s) ==
    LET hits == {i \in 1 .. Len(s) - 1 : s[i] = LF /\ s[i + 1] = LF}
    IN  IF hits = {} THEN 0 ELSE CHOOSE i \in hits : \A j \in hits : i <= j

RECURSIVE SplitBlank(_)
\* s.split("\n\n"): the pieces between the blank-line delimiters, of which
\* the last is what follows the last delimiter.
SplitBlank(s) ==
    LET i == FindBlank(s)
    IN  IF i = 0 THEN <<s>>
        ELSE <<SubSeq(s, 1, i - 1)>> \o SplitBlank(SubSeq(s, i + 2, Len(s)))

\* The pieces of a JSON text.
TagV2 == <<"\"", "j", "s", "o", "n", "r", "p", "c", "\"", ":", "\"", "2", ".", "0", "\"">>
TagV1 == <<"\"", "j", "s", "o", "n", "r", "p", "c", "\"", ":", "\"", "1", ".", "0", "\"">>
KeyResult == <<"\"", "r", "e", "s", "u", "l", "t", "\"", ":">>
KeyError == <<"\"", "e", "r", "r", "o", "r", "\"", ":">>
KeyCapabilities ==
    <<"\"", "c", "a", "p", "a", "b", "i", "l", "i", "t", "i", "e", "s", "\"", ":">>
KeyStreaming == <<"\"", "s", "t", "r", "e", "a", "m", "i", "n", "g", "\"", ":">>
KeyPush ==
    <<"\"", "p", "u", "s", "h", "N", "o", "t", "i", "f", "i", "c", "a", "t", "i", "o",
      "n", "s", "\"", ":">>
LitTrue == <<"t", "r", "u", "e">>
LitFalse == <<"f", "a", "l", "s", "e">>
LitNull == <<"n", "u", "l", "l">>
\* {"code":1,"message":"boom"}
TxtErrorObject1 ==
    <<"{", "\"", "c", "o", "d", "e", "\"", ":", "1", ",", "\"", "m", "e", "s", "s", "a",
      "g", "e", "\"", ":", "\"", "b", "o", "o", "m", "\"", "}">>
\* {"code":2,"message":"bad","data":7}
TxtErrorObject2 ==
    <<"{", "\"", "c", "o", "d", "e", "\"", ":", "2", ",", "\"", "m", "e", "s", "s", "a",
      "g", "e", "\"", ":", "\"", "b", "a", "d", "\"", ",", "\"", "d", "a", "t", "a", "\"",
      ":", "7", "}">>
\* {"code":-32603,"message":"down"}
TxtErrorObject3 ==
    <<"{", "\"", "c", "o", "d", "e", "\"", ":", "-", "3", "2", "6", "0", "3", ",", "\"",
      "m", "e", "s", "s", "a", "g", "e", "\"", ":", "\"", "d", "o", "w", "n", "\"", "}">>

Braces(members) == <<"{">> \o members \o <<"}">>
Comma == <<",">>

\* The JSON texts of the model, each with the value JSON.parse gives it.
TxtResult1 == Braces(TagV2 \o Comma \o KeyResult \o <<"1">>)
TxtResult2 == Braces(TagV2 \o Comma \o KeyResult \o <<"2">>)
TxtResultNull == Braces(TagV2 \o Comma \o KeyResult \o LitNull)
TxtError1 == Braces(TagV2 \o Comma \o KeyError \o TxtErrorObject1)
TxtError2 == Braces(TagV2 \o Comma \o KeyError \o TxtErrorObject2)
TxtError3 == Braces(TagV2 \o Comma \o KeyError \o TxtErrorObject3)
TxtNoPayload == Braces(TagV2)
TxtBadTag == Braces(TagV1 \o Comma \o KeyResult \o <<"1">>)
TxtUntaggedError == Braces(KeyError \o TxtErrorObject1)
TxtNull == LitNull
TxtNumber == <<"7">>
TxtArray == <<"[", "]">>
TxtGarbage == <<"{", "x">>
TxtCardStreaming == Braces(KeyCapabilities \o Braces(KeyStreaming \o LitTrue))
TxtCardPush ==
    Braces(KeyCapabilities
           \o Braces(KeyStreaming \o LitFalse \o Comma \o KeyPush \o LitTrue))
TxtCardPlain == Braces(<<>>)

ErrorObject1 == Obj([code |-> Num(1), message |-> Str("boom")])
ErrorObject2 == Obj([code |-> Num(2), message |-> Str("bad"), data |-> Num(7)])
ErrorObject3 == Obj([code |-> Num(InternalErrorCode), message |-> Str("down")])

JsonDocs ==
    { [text |-> TxtResult1, value |-> Obj([jsonrpc |-> Str("2.0"), result |-> Num(1)])],
      [text |-> TxtResult2, value |-> Obj([jsonrpc |-> Str("2.0"), result |-> Num(2)])],
      [text |-> TxtResultNull, value |-> Obj([jsonrpc |-> Str("2.0"), result |-> Null])],
      [text |-> TxtError1, value |-> Obj([jsonrpc |-> Str("2.0"), error |-> ErrorObject1])],
      [text |-> TxtError2, value |-> Obj([jsonrpc |-> Str("2.0"), error |-> ErrorObject2])],
      [text |-> TxtError3, value |-> Obj([jsonrpc |-> Str("2.0"), error |-> ErrorObject3])],
      [text |-> TxtNoPayload, value |-> Obj([jsonrpc |-> Str("2.0")])],
      [text |-> TxtBadTag, value |-> Obj([jsonrpc |-> Str("1.0"), result |-> Num(1)])],
      [text |-> TxtUntaggedError, value |-> Obj([error |-> ErrorObject1])],
      [text |-> TxtNull, value |-> Null],
      [text |-> TxtNumber, value |-> Num(7)],
      [text |-> TxtArray, value |-> Arr],
      [text |-> TxtCardStreaming,
       value |-> Obj([capabilities |-> Obj([streaming |-> Bool(TRUE)])])],
      [text |-> TxtCardPush,
       value |-> Obj([capabilities |->
                        Obj([streaming |-> Bool(FALSE), pushNotifications |-> Bool(TRUE)])])],
      [text |-> TxtCardPlain, value |-> Obj(<<>>)] }

\* JSON.parse(text): the value of a JSON text, whitespace around it ignored;
\* it throws a SyntaxError on every text that is not a JSON text.  The
\* model's JSON texts are those of JsonDocs.
ParseJSON(text) ==
    LET body == Trim(text)
        hits == {d \in JsonDocs : d.text = body}
    IN  IF hits = {} THEN [ok |-> FALSE, value |-> Undefined, error |-> SyntaxError(body)]
        ELSE [ok |-> TRUE, value |-> (CHOOSE d \in hits : TRUE).value, error |-> NoError]

(***************************************************************************)
(* The state.                                                              *)
(***************************************************************************)
VARIABLES
    \* A streaming call (sendTaskSubscribe / resubscribeTask) and its consumer.
    sPhase,      \* where the returned sequence is: see StreamPhases
    sStatus,     \* the status of the response fetch resolved with, 0 before it
    sMethod,     \* the JSON-RPC method of the call, "none" before it
    sFrames,     \* the names of the frames the peer sends, in order
    sText,       \* the text the peer sends on the response body
    sPos,        \* how many of its characters the reader has delivered
    sCutInside,  \* history: a chunk has ended inside a line ending or a blank line
    sBuffer,     \* `buffer` of _handleStreamingResponse
    sLines,      \* the messages of `lines` the for loop has yet to visit
    sDecoded,    \* what _handleStreamingResponse has yielded, in order
    sReceived,   \* what the consumer has received, in order
    sError,      \* the error raised to the consumer, NoError if none
    sReader,     \* the reader of the body: "none", "locked", "released"
    sReleases,   \* the number of reader.releaseLock() calls
    sPosts,      \* the number of POST requests of the streaming call
    \* A unary call (sendTask, getTask, cancelTask, set/getTaskPushNotification).
    uPhase,      \* "idle", "sent", "received", "resolved" or "raised"
    uMethod,     \* the JSON-RPC method of the call, "none" before it
    uResponse,   \* the HTTP response fetch resolved with
    uResult,     \* the value the call resolved with
    uError,      \* the error the call raised, NoError if none
    uPosts,      \* the number of POST requests of the unary call
    \* The agent card of the client instance.
    cachedAgentCard, \* the field of HttpClient: the cached card, Null if none
    cCalls,          \* the agentCard()/supports() calls made, in call order
    cGets            \* the number of GET requests for the agent card

streamVars ==
    <<sPhase, sStatus, sMethod, sFrames, sText, sPos, sCutInside, sBuffer, sLines, sDecoded, sReceived, sError,
      sReader, sReleases, sPosts>>

unaryVars == <<uPhase, uMethod, uResponse, uResult, uError, uPosts>>

cardVars == <<cachedAgentCard, cCalls, cGets>>

vars == <<streamVars, unaryVars, cardVars>>

(***************************************************************************)
(* HTTP.                                                                   *)
(***************************************************************************)
\* The HTTP responses: response.ok is status in 200..299; response.body is
\* null on a response without a body.
HttpStatuses == {200, 204, 404, 500}
ResponseOk(status) == status >= 200 /\ status <= 299
StatusText(status) ==
    CASE status = 200 -> "OK"
      [] status = 204 -> "No Content"
      [] status = 404 -> "Not Found"
      [] OTHER -> "Internal Server Error"

\* What fetch rejects with, what reader.read() rejects with, and what
\* response.text() rejects with.
FetchFailure ==
    [name |-> "TypeError", code |-> Undefined, message |-> Str("fetch failed"),
     data |-> Undefined]
ReadFailure ==
    [name |-> "TypeError", code |-> Undefined, message |-> Str("terminated"),
     data |-> Undefined]
BodyFailure ==
    [name |-> "TypeError", code |-> Undefined, message |-> Str("body stream error"),
     data |-> Undefined]

\* An Error object as a value (the `data` of a wrapping RpcError).
ErrorValue(e) == [t |-> "error", e |-> e]

\* The catch of _makeHttpRequest, lines 79-90.
NetworkError(e) ==
    RpcError(Num(InternalErrorCode), Str("Network error: " \o e.message.s), ErrorValue(e))

(***************************************************************************)
(* The unary decoder: _handleJsonResponse.                                 *)
(***************************************************************************)
Return(v) == [kind |-> "return", value |-> v, error |-> NoError]
Throw(e) == [kind |-> "throw", value |-> Undefined, error |-> e]

\* Lines 101-114 on a non-success response: the body is parsed and, when the
\* envelope carries an error, that error is thrown as an RpcError.
ProbeErrorBody(body) ==
    LET p == ParseJSON(body)
        e == Get(p.value, "error")
    IN  IF ~p.ok THEN Throw(p.error)
        ELSE IF p.value = Null THEN Throw(TypeError)
        ELSE IF Truthy(e)
        THEN Throw(RpcError(Get(e, "code"), Get(e, "message"), Get(e, "data")))
        ELSE Return(Undefined)

\* The catch of lines 112-114 around ProbeErrorBody: whatever the probe
\* throws is dropped.
IgnoreProbeError(outcome) == Return(Undefined)

\* The error of lines 115-119.
HttpError(status, body) ==
    PlainError("HTTP error " \o ToString(status) \o ": " \o StatusText(status)
               \o (IF body # <<>> THEN " - " \o Text(body) ELSE ""))

\* Lines 99-120: the non-success branch.
DecodeFailureResponse(response) ==
    IF response.textFails THEN Throw(BodyFailure)
    ELSE LET probe == IgnoreProbeError(ProbeErrorBody(response.body))
         IN  IF probe.kind = "throw" THEN probe
             ELSE Throw(HttpError(response.status, response.body))

\* v ?? null
OrNull(v) == IF v = Undefined \/ v = Null THEN Null ELSE v

\* A decoder that takes an envelope with neither result nor error for a
\* malformed response.
DecodeSuccessResponseStrict(response) ==
    IF response.textFails THEN Throw(BodyFailure)
    ELSE LET p == ParseJSON(response.body)
             v == p.value
             e == Get(v, "error")
             r == Get(v, "result")
         IN  IF ~p.ok THEN Throw(p.error)
             ELSE IF ~TypeofObject(v) \/ v = Null \/ Get(v, "jsonrpc") # Str("2.0")
                     \/ (r = Undefined /\ ~Truthy(e))
             THEN Throw(RpcError(Num(InternalErrorCode),
                                 Str("Invalid JSON-RPC response structure received from server."),
                                 Undefined))
             ELSE IF Truthy(e)
             THEN Throw(RpcError(Get(e, "code"), Get(e, "message"), Get(e, "data")))
             ELSE Return(OrNull(r))

\* A decoder that does not validate the envelope.
DecodeSuccessResponseUnchecked(response) ==
    IF response.textFails THEN Throw(BodyFailure)
    ELSE LET p == ParseJSON(response.body)
             v == p.value
             e == Get(v, "error")
             r == Get(v, "result")
         IN  IF ~p.ok THEN Throw(p.error)
             ELSE IF Truthy(e)
             THEN Throw(RpcError(Get(e, "code"), Get(e, "message"), Get(e, "data")))
             ELSE Return(OrNull(r))

\* Lines 122-144: the success branch.
DecodeSuccessResponse(response) ==
    IF response.textFails THEN Throw(BodyFailure)
    ELSE LET p == ParseJSON(response.body)
             v == p.value
             e == Get(v, "error")
             r == Get(v, "result")
         IN  IF ~p.ok THEN Throw(p.error)
             ELSE IF ~TypeofObject(v) \/ v = Null \/ Get(v, "jsonrpc") # Str("2.0")
             THEN Throw(RpcError(Num(InternalErrorCode),
                                 Str("Invalid JSON-RPC response structure received from server."),
                                 Undefined))
             ELSE IF Truthy(e)
             THEN Throw(RpcError(Get(e, "code"), Get(e, "message"), Get(e, "data")))
             ELSE Return(OrNull(r))

\* A catch that wraps every error, RpcError or not.
WrapResponseErrorAlways(outcome) ==
    IF outcome.kind # "throw" THEN outcome
    ELSE Throw(RpcError(Num(InternalErrorCode),
                        Str("Failed to process response: " \o outcome.error.message.s),
                        ErrorValue(outcome.error)))

\* The catch of lines 145-164: an RpcError goes on as it is, anything else is
\* wrapped in an RpcError with the internal code.
WrapResponseError(outcome) ==
    IF outcome.kind # "throw" \/ IsRpcError(outcome.error) THEN outcome
    ELSE Throw(RpcError(Num(InternalErrorCode),
                        Str("Failed to process response: " \o outcome.error.message.s),
                        ErrorValue(outcome.error)))

\* _handleJsonResponse(response).
HandleJsonResponse(response) ==
    WrapResponseError(IF ~ResponseOk(response.status)
                      THEN DecodeFailureResponse(response)
                      ELSE DecodeSuccessResponse(response))

UnaryMethods ==
    {"tasks/send", "tasks/get", "tasks/cancel", "tasks/pushNotification/set",
     "tasks/pushNotification/get"}

\* The bodies a peer answers a unary call with.
UnaryBodies ==
    {TxtResult1, TxtResultNull, TxtError1, TxtError2, TxtError3, TxtNoPayload, TxtBadTag,
     TxtUntaggedError, TxtNull, TxtNumber, TxtArray, TxtGarbage, <<>>}

NoResponse == [status |-> 0, body |-> <<>>, textFails |-> FALSE]

UnaryInit ==
    /\ uPhase = "idle"
    /\ uMethod = "none"
    /\ uResponse = NoResponse
    /\ uResult = Undefined
    /\ uError = NoError
    /\ uPosts = 0

\* sendTask(params), getTask(params), ...: the request is built and the POST
\* sent (_makeHttpRequest, line 70).
UnaryCall(method) ==
    /\ uPhase = "idle"
    /\ uPhase' = "sent"
    /\ uMethod' = method
    /\ uPosts' = uPosts + 1
    /\ UNCHANGED <<uResponse, uResult, uError>>
    /\ UNCHANGED <<streamVars, cardVars>>

\* fetch rejects: _makeHttpRequest throws the RpcError of lines 81-89, which
\* the method lets through.
UnaryFetchFails ==
    /\ uPhase = "sent"
    /\ uPhase' = "raised"
    /\ uError' = NetworkError(FetchFailure)
    /\ UNCHANGED <<uMethod, uResponse, uResult, uPosts>>
    /\ UNCHANGED <<streamVars, cardVars>>

\* fetch resolves with a response.
UnaryFetchResponds(status, body, textFails) ==
    /\ uPhase = "sent"
    /\ uPhase' = "received"
    /\ uResponse' = [status |-> status, body |-> body, textFails |-> textFails]
    /\ UNCHANGED <<uMethod, uResult, uError, uPosts>>
    /\ UNCHANGED <<streamVars, cardVars>>

\* _handleJsonResponse settles the call; the method returns `result ?? null`.
UnaryDecode ==
    /\ uPhase = "received"
    /\ LET outcome == HandleJsonResponse(uResponse)
       IN  IF outcome.kind = "throw"
           THEN /\ uPhase' = "raised"
                /\ uError' = outcome.error
                /\ UNCHANGED uResult
           ELSE /\ uPhase' = "resolved"
                /\ uResult' = OrNull(outcome.value)
                /\ UNCHANGED uError
    /\ UNCHANGED <<uMethod, uResponse, uPosts>>
    /\ UNCHANGED <<streamVars, cardVars>>

UnaryNext ==
    \/ \E m \in UnaryMethods : UnaryCall(m)
    \/ UnaryFetchFails
    \/ /\ uPhase = "sent"
       /\ \E st \in HttpStatuses, body \in UnaryBodies, textFails \in BOOLEAN :
              UnaryFetchResponds(st, body, textFails)
    \/ UnaryDecode

(***************************************************************************)
(* The streaming decoder: _handleStreamingResponse.                        *)
(***************************************************************************)
DataPrefix == <<"d", "a", "t", "a", ":", " ">>
EventLine == <<"e", "v", "e", "n", "t", ":", " ", "x", LF>>
BlankLine == <<LF, LF>>
BlankLineCRLF == <<CR, LF, CR, LF>>

\* The frames a peer sends.
FrameResult1 == DataPrefix \o TxtResult1 \o BlankLine
FrameResult2 == DataPrefix \o TxtResult2 \o BlankLineCRLF
FrameResultNull == DataPrefix \o TxtResultNull \o BlankLine
FrameError2 == DataPrefix \o TxtError2 \o BlankLineCRLF
FrameNoPayload == DataPrefix \o TxtNoPayload \o BlankLine
FrameGarbage == DataPrefix \o TxtGarbage \o BlankLine
FrameBadTag == DataPrefix \o TxtBadTag \o BlankLine
FrameEvent == EventLine \o DataPrefix \o TxtResult2 \o BlankLine
\* A complete envelope that lacks its terminating blank line.
PartialFrame == DataPrefix \o TxtResult2

\* What lines 215-247 do with a data line, inside the try of line 214: yield
\* a result, throw (JSON.parse's SyntaxError, or the envelope's error as an
\* RpcError), or neither ("continue" of line 225, the warning of line 243).
FrameBody(dataLine) ==
    LET p == ParseJSON(dataLine)
        v == p.value
        e == Get(v, "error")
    IN  IF ~p.ok THEN [kind |-> "throw", value |-> Undefined, error |-> p.error]
        ELSE IF ~TypeofObject(v) \/ v = Null
                \/ ~(HasKey(v, "jsonrpc") /\ Get(v, "jsonrpc") = Str("2.0"))
        THEN [kind |-> "skip", value |-> Undefined, error |-> NoError]
        ELSE IF Truthy(e)
        THEN [kind |-> "throw", value |-> Undefined,
              error |-> RpcError(Get(e, "code"), Get(e, "message"), Get(e, "data"))]
        ELSE IF Get(v, "result") # Undefined
        THEN [kind |-> "yield", value |-> Get(v, "result"), error |-> NoError]
        ELSE [kind |-> "skip", value |-> Undefined, error |-> NoError]

\* A catch that logs and rethrows.
CatchFrameErrorRethrows(b) == b

\* The catch of lines 248-254 around FrameBody: whatever the body throws is
\* logged and the for loop goes on to the next message.
CatchFrameError(b) ==
    IF b.kind = "throw"
    THEN [kind |-> "skip", value |-> Undefined, error |-> NoError]
    ELSE b

\* One turn of the for loop of line 210 on a message (lines 211-256).
FrameOutcome(message) ==
    IF ~StartsWith(message, DataPrefix)
    THEN [kind |-> "skip", value |-> Undefined, error |-> NoError]
    ELSE LET dataLine == Trim(SubSeq(message, Len(DataPrefix) + 1, Len(message)))
         IN  IF dataLine = <<>>
             THEN [kind |-> "skip", value |-> Undefined, error |-> NoError]
             ELSE CatchFrameError(FrameBody(dataLine))

\* The filter of sendTaskSubscribe / resubscribeTask (lines 339, 424): an item
\* reaches the consumer unless it is null or undefined.
PassesItemFilter(item) == item # Undefined /\ item # Null

RECURSIVE Drain(_)
\* The for loop of line 210 run on the messages left, up to the first item
\* that reaches the consumer: the items _handleStreamingResponse yields on
\* the way (decoded), the item delivered (value), the messages left (rest).
\* status is "yield" when an item was delivered, "throw" when a message
\* raised, "exhausted" when the loop ended.
Drain(lines) ==
    IF lines = <<>>
    THEN [status |-> "exhausted", decoded |-> <<>>, value |-> Undefined,
          rest |-> <<>>, error |-> NoError]
    ELSE LET o == FrameOutcome(Head(lines))
             more == Drain(Tail(lines))
         IN  CASE o.kind = "throw" ->
                    [status |-> "throw", decoded |-> <<>>, value |-> Undefined,
                     rest |-> Tail(lines), error |-> o.error]
               [] o.kind = "yield" /\ PassesItemFilter(o.value) ->
                    [status |-> "yield", decoded |-> <<o.value>>, value |-> o.value,
                     rest |-> Tail(lines), error |-> NoError]
               [] o.kind = "yield" /\ ~PassesItemFilter(o.value) ->
                    [more EXCEPT !.decoded = <<o.value>> \o more.decoded]
               [] OTHER -> more

\* A decoder that forgets the partial frame of the reads before.
AppendChunkDropsBuffer(buffer, value) ==
    LET parts == SplitBlank(RemoveCR(value))
    IN  [lines |-> SubSeq(parts, 1, Len(parts) - 1), buffer |-> parts[Len(parts)]]

\* A decoder that visits the messages of a chunk last to first.
AppendChunkReversed(buffer, value) ==
    LET parts == SplitBlank(RemoveCR(buffer \o value))
        n == Len(parts) - 1
    IN  [lines |-> [i \in 1 .. n |-> parts[n + 1 - i]], buffer |-> parts[Len(parts)]]

\* Lines 207-209: the buffer and the complete messages after a chunk.
AppendChunk(buffer, value) ==
    LET parts == SplitBlank(RemoveCR(buffer \o value))
    IN  [lines |-> SubSeq(parts, 1, Len(parts) - 1), buffer |-> parts[Len(parts)]]

(***************************************************************************)
(* The peer of a streaming call.                                           *)
(***************************************************************************)
\* The frames by name: the text of each, and what it is (class): a result
\* frame carrying `value`, an error frame carrying `error`, a valid envelope
\* with neither, or a malformed frame.
FrameTable ==
    [result1 |-> [text |-> FrameResult1, class |-> "result", value |-> Num(1),
                  error |-> Undefined],
     result2 |-> [text |-> FrameResult2, class |-> "result", value |-> Num(2),
                  error |-> Undefined],
     resultNull |-> [text |-> FrameResultNull, class |-> "result", value |-> Null,
                     error |-> Undefined],
     error2 |-> [text |-> FrameError2, class |-> "error", value |-> Undefined,
                 error |-> ErrorObject2],
     noPayload |-> [text |-> FrameNoPayload, class |-> "neither", value |-> Undefined,
                    error |-> Undefined],
     garbage |-> [text |-> FrameGarbage, class |-> "malformed", value |-> Undefined,
                  error |-> Undefined],
     badTag |-> [text |-> FrameBadTag, class |-> "malformed", value |-> Undefined,
                 error |-> Undefined],
     event |-> [text |-> FrameEvent, class |-> "result", value |-> Num(2),
                error |-> Undefined]]

FrameNames == DOMAIN FrameTable

RECURSIVE FrameSeqs(_)
\* The sequences of at most n frame names.
FrameSeqs(n) ==
    IF n = 0 THEN {<<>>}
    ELSE LET shorter == FrameSeqs(n - 1)
         IN  shorter \cup {Append(fs, f) : fs \in shorter, f \in FrameNames}

\* The frames that carry a result a consumer receives.
PlainResults == {"result1", "result2"}

\* What may follow the last complete frame before the peer closes.
StreamTails == {<<>>, PartialFrame}

\* The streams of the model: at most MaxFrames frames and a tail, of which at
\* most one is not a plain result frame (the empty tail counts as plain).
StreamInputs ==
    {input \in [frames : FrameSeqs(MaxFrames), tail : StreamTails] :
        Cardinality({i \in DOMAIN input.frames : input.frames[i] \notin PlainResults})
            + (IF input.tail = <<>> THEN 0 ELSE 1) <= 1}

RECURSIVE Wire(_)
\* The text of a sequence of frames.
Wire(fs) == IF fs = <<>> THEN <<>> ELSE FrameTable[Head(fs)].text \o Wire(Tail(fs))

\* The error of lines 184-186.
StreamHttpError(status) ==
    PlainError("HTTP error " \o ToString(status) \o ": " \o StatusText(status)
               \o " - Failed to establish stream.")

StreamMethods == {"tasks/sendSubscribe", "tasks/resubscribe"}
StreamPhases ==
    {"idle",       \* no streaming call was made
     "created",    \* the sequence was returned and never pulled
     "fetching",   \* pulled: the POST is in flight
     "refusing",   \* pulled: response.text() of a refused response is in flight
     "reading",    \* pulled: reader.read() is in flight
     "yielded",    \* an item was delivered; the generators are suspended
     "completed",  \* the sequence ended normally
     "raised",     \* the sequence raised sError
     "cancelled"}  \* the consumer abandoned the sequence

StreamInit ==
    /\ sPhase = "idle"
    /\ sStatus = 0
    /\ sMethod = "none"
    /\ sFrames = <<>>
    /\ sText = <<>>
    /\ sPos = 0
    /\ sCutInside = FALSE
    /\ sBuffer = <<>>
    /\ sLines = <<>>
    /\ sDecoded = <<>>
    /\ sReceived = <<>>
    /\ sError = NoError
    /\ sReader = "none"
    /\ sReleases = 0
    /\ sPosts = 0

\* A method that sends the POST as it is called, before any pull.
SubscribeEager(method) ==
    /\ sPhase = "idle"
    /\ sPhase' = "created"
    /\ sMethod' = method
    /\ sPosts' = sPosts + 1
    /\ UNCHANGED <<sFrames, sText, sPos, sCutInside, sBuffer, sLines, sDecoded, sReceived, sError,
                   sReader, sReleases>>
    /\ UNCHANGED sStatus
    /\ UNCHANGED <<unaryVars, cardVars>>

\* sendTaskSubscribe(params) / resubscribeTask(params): the generator object
\* is created and returned; its body has not started.
Subscribe(method) ==
    /\ sPhase = "idle"
    /\ sPhase' = "created"
    /\ sMethod' = method
    /\ UNCHANGED <<sFrames, sText, sPos, sCutInside, sBuffer, sLines, sDecoded, sReceived, sError,
                   sReader, sReleases, sPosts>>
    /\ UNCHANGED sStatus
    /\ UNCHANGED <<unaryVars, cardVars>>

\* The generator runs the for loop on `lines` up to its next suspension: an
\* item delivered to the consumer, an error raised (the catch and finally of
\* lines 259-268 run), or the next reader.read() of line 196.
RunLoop(lines) ==
    LET d == Drain(lines)
    IN  /\ sDecoded' = sDecoded \o d.decoded
        /\ sLines' = d.rest
        /\ CASE d.status = "yield" ->
                  /\ sPhase' = "yielded"
                  /\ sReceived' = Append(sReceived, d.value)
                  /\ UNCHANGED <<sError, sReader, sReleases>>
             [] d.status = "throw" ->
                  /\ sPhase' = "raised"
                  /\ sError' = d.error
                  /\ sReader' = "released"
                  /\ sReleases' = sReleases + 1
                  /\ UNCHANGED sReceived
             [] OTHER ->
                  /\ sPhase' = "reading"
                  /\ UNCHANGED <<sReceived, sError, sReader, sReleases>>

\* The consumer's first pull starts the generator, which sends the POST
\* (_makeHttpRequest, line 70).
PullFirst ==
    /\ sPhase = "created"
    /\ sPhase' = "fetching"
    /\ sPosts' = sPosts + 1
    /\ UNCHANGED <<sMethod, sFrames, sText, sPos, sCutInside, sBuffer, sLines, sDecoded, sReceived,
                   sError, sReader, sReleases>>
    /\ UNCHANGED sStatus
    /\ UNCHANGED <<unaryVars, cardVars>>

\* A later pull resumes the generators after the yield of line 240.
PullNext ==
    /\ sPhase = "yielded"
    /\ RunLoop(sLines)
    /\ UNCHANGED <<sMethod, sFrames, sText, sPos, sCutInside, sBuffer, sPosts>>
    /\ UNCHANGED sStatus
    /\ UNCHANGED <<unaryVars, cardVars>>

\* fetch rejects: _makeHttpRequest throws the RpcError of lines 81-89.
StreamFetchFails ==
    /\ sPhase = "fetching"
    /\ sPhase' = "raised"
    /\ sError' = NetworkError(FetchFailure)
    /\ UNCHANGED <<sMethod, sFrames, sText, sPos, sCutInside, sBuffer, sLines, sDecoded, sReceived,
                   sReader, sReleases, sPosts>>
    /\ UNCHANGED sStatus
    /\ UNCHANGED <<unaryVars, cardVars>>

\* fetch resolves with a response that is not ok or has no body: the test of
\* line 171 holds and the generator awaits response.text() (line 174).
StreamRefused(status, hasBody) ==
    /\ sPhase = "fetching"
    /\ ~ResponseOk(status) \/ ~hasBody
    /\ sPhase' = "refusing"
    /\ sStatus' = status
    /\ UNCHANGED <<sMethod, sFrames, sText, sPos, sCutInside, sBuffer, sLines, sDecoded, sReceived,
                   sError, sReader, sReleases, sPosts>>
    /\ UNCHANGED <<unaryVars, cardVars>>

\* response.text() of the refused response settles (resolved, or rejected and
\* ignored by the catch of lines 175-177): the error of lines 184-186 is
\* thrown.
StreamRefusalRead ==
    /\ sPhase = "refusing"
    /\ sPhase' = "raised"
    /\ sError' = StreamHttpError(sStatus)
    /\ UNCHANGED <<sMethod, sFrames, sText, sPos, sCutInside, sBuffer, sLines, sDecoded, sReceived,
                   sReader, sReleases, sPosts>>
    /\ UNCHANGED sStatus
    /\ UNCHANGED <<unaryVars, cardVars>>

\* fetch resolves with an ok response whose body will carry the frames fs and
\* then tail: the reader is acquired (line 189) and the first read issued.
StreamOpened(status, fs, tail) ==
    /\ sPhase = "fetching"
    /\ ResponseOk(status)
    /\ sPhase' = "reading"
    /\ sStatus' = status
    /\ sFrames' = fs
    /\ sText' = Wire(fs) \o tail
    /\ sReader' = "locked"
    /\ UNCHANGED <<sMethod, sPos, sCutInside, sBuffer, sLines, sDecoded, sReceived, sError, sReleases,
                   sPosts>>
    /\ UNCHANGED <<unaryVars, cardVars>>

\* A chunk that ends after the first p characters of text ends inside a line
\* ending or a blank line: between two of CR and LF.
CutInside(text, p) ==
    /\ p >= 1
    /\ p < Len(text)
    /\ text[p] \in {CR, LF}
    /\ text[p + 1] \in {CR, LF}

\* reader.read() resolves with the next n characters: lines 207-257.
ReadChunk(n) ==
    /\ sPhase = "reading"
    /\ sPos + n <= Len(sText)
    /\ LET a == AppendChunk(sBuffer, SubSeq(sText, sPos + 1, sPos + n))
       IN  /\ sBuffer' = a.buffer
           /\ RunLoop(a.lines)
    /\ sPos' = sPos + n
    /\ sCutInside' = (sCutInside \/ CutInside(sText, sPos + n))
    /\ UNCHANGED <<sMethod, sFrames, sText, sPosts>>
    /\ UNCHANGED sStatus
    /\ UNCHANGED <<unaryVars, cardVars>>

\* A decoder that takes partial data left in the buffer at the end of the
\* stream for a protocol error.
ReadDoneRaisesOnPartial ==
    /\ sPhase = "reading"
    /\ sPos = Len(sText)
    /\ IF Trim(sBuffer) # <<>>
       THEN /\ sPhase' = "raised"
            /\ sError' = RpcError(Num(InternalErrorCode), Str("SSE stream ended with partial data"),
                                  Undefined)
       ELSE /\ sPhase' = "completed"
            /\ UNCHANGED sError
    /\ sReader' = "released"
    /\ sReleases' = sReleases + 1
    /\ UNCHANGED <<sMethod, sFrames, sText, sPos, sCutInside, sBuffer, sLines, sDecoded, sReceived,
                   sPosts>>
    /\ UNCHANGED sStatus
    /\ UNCHANGED <<unaryVars, cardVars>>

\* reader.read() resolves with done: lines 198-205, then the finally.
ReadDone ==
    /\ sPhase = "reading"
    /\ sPos = Len(sText)
    /\ sPhase' = "completed"
    /\ sReader' = "released"
    /\ sReleases' = sReleases + 1
    /\ UNCHANGED <<sMethod, sFrames, sText, sPos, sCutInside, sBuffer, sLines, sDecoded, sReceived,
                   sError, sPosts>>
    /\ UNCHANGED sStatus
    /\ UNCHANGED <<unaryVars, cardVars>>

\* A decoder that notes the rejected read and goes on with the while loop.
ReadFailsGoesOn ==
    /\ sPhase = "reading"
    /\ sError = NoError
    /\ sError' = ReadFailure
    /\ UNCHANGED <<sPhase, sMethod, sFrames, sText, sPos, sCutInside, sBuffer, sLines, sDecoded,
                   sReceived, sReader, sReleases, sPosts>>
    /\ UNCHANGED sStatus
    /\ UNCHANGED <<unaryVars, cardVars>>

\* reader.read() rejects: the catch of line 259 rethrows, the finally releases.
ReadFails ==
    /\ sPhase = "reading"
    /\ sPhase' = "raised"
    /\ sError' = ReadFailure
    /\ sReader' = "released"
    /\ sReleases' = sReleases + 1
    /\ UNCHANGED <<sMethod, sFrames, sText, sPos, sCutInside, sBuffer, sLines, sDecoded, sReceived,
                   sPosts>>
    /\ UNCHANGED sStatus
    /\ UNCHANGED <<unaryVars, cardVars>>

\* An abandonment that ends the generators without running the finally of
\* lines 265-268.
AbandonKeepsLock ==
    /\ sPhase \in {"created", "yielded"}
    /\ sPhase' = "cancelled"
    /\ UNCHANGED <<sMethod, sFrames, sText, sPos, sCutInside, sBuffer, sLines, sDecoded, sReceived,
                   sError, sReader, sReleases, sPosts>>
    /\ UNCHANGED sStatus
    /\ UNCHANGED <<unaryVars, cardVars>>

\* The consumer abandons the sequence (break out of for await: return() on
\* the generator).  Suspended at the yield, the generators run their finally
\* blocks; never started, they just end.
Abandon ==
    /\ sPhase \in {"created", "yielded"}
    /\ sPhase' = "cancelled"
    /\ IF sPhase = "yielded"
       THEN sReader' = "released" /\ sReleases' = sReleases + 1
       ELSE UNCHANGED <<sReader, sReleases>>
    /\ UNCHANGED <<sMethod, sFrames, sText, sPos, sCutInside, sBuffer, sLines, sDecoded, sReceived,
                   sError, sPosts>>
    /\ UNCHANGED sStatus
    /\ UNCHANGED <<unaryVars, cardVars>>

\* The chunk lengths a read may deliver: up to MaxChunk, or all that is left.
ChunkSizes == (1 .. MaxChunk) \cup {Len(sText) - sPos}

StreamNext ==
    \/ \E m \in StreamMethods : Subscribe(m)
    \/ PullFirst
    \/ PullNext
    \/ StreamFetchFails
    \/ \E st \in HttpStatuses, hasBody \in BOOLEAN : StreamRefused(st, hasBody)
    \/ StreamRefusalRead
    \/ /\ sPhase = "fetching"
       /\ \E input \in StreamInputs : StreamOpened(200, input.frames, input.tail)
    \/ /\ sPhase = "reading"
       /\ \E n \in ChunkSizes : n >= 1 /\ ReadChunk(n)
    \/ ReadDone
    \/ ReadFails
    \/ Abandon

(***************************************************************************)
(* The agent card: agentCard and supports.                                 *)
(***************************************************************************)
BaseUrl == "http://peer"
CardUrl == BaseUrl \o "/agent-card"

\* The bodies a peer answers GET <base>/agent-card with: agent cards (JSON
\* objects), the JSON text null, or a body that is no JSON text.
CardBodies == {TxtCardStreaming, TxtCardPush, TxtCardPlain, TxtNull, TxtGarbage}
CardStatuses == {200, 500}
Capabilities == {"streaming", "pushNotifications"}

\* The error of lines 287-289.
CardHttpError(status) ==
    PlainError("HTTP error " \o ToString(status) \o " fetching agent card from "
               \o CardUrl \o ": " \o StatusText(status))

\* The catch of agentCard, lines 295-304.
WrapCardError(e) ==
    RpcError(Num(InternalErrorCode),
             Str("Could not retrieve agent card: " \o e.message.s), ErrorValue(e))

\* A client that never looks at its cache.
CacheHitNever(cached) == FALSE

\* A client that takes a fetch that was tried for a cached answer.
CacheHitOnceTried(cached) == Truthy(cached) \/ cGets > 0

\* Line 272: the cache answers the call.
CacheHit(cached) == Truthy(cached)

\* A supports that lets the error of agentCard through.
SupportsOutcomeRethrows(capability, outcome) ==
    IF outcome.kind = "throw" THEN outcome
    ELSE Return(Bool(Truthy(Get(Get(outcome.value, "capabilities"), capability))))

\* supports(capability) given how its agentCard() call ended: lines 436-452.
SupportsOutcome(capability, outcome) ==
    IF outcome.kind = "throw" THEN Return(Bool(FALSE))
    ELSE LET card == outcome.value
             caps == Get(card, "capabilities")
         IN  IF card = Null \/ card = Undefined THEN Return(Bool(FALSE))
             ELSE CASE capability = "streaming" ->
                         Return(Bool(Truthy(Get(caps, "streaming"))))
                    [] capability = "pushNotifications" ->
                         Return(Bool(Truthy(Get(caps, "pushNotifications"))))
                    [] OTHER -> Return(Bool(FALSE))

\* How a call ends, given how its agentCard() ended.
CallOutcome(call, outcome) ==
    IF call.op = "supports" THEN SupportsOutcome(call.cap, outcome) ELSE outcome

Pending == [kind |-> "pending", value |-> Undefined, error |-> NoError]

\* The calls that have ended.
DoneCalls == {i \in DOMAIN cCalls : cCalls[i].phase = "done"}

CardOps ==
    {[op |-> "agentCard", cap |-> "none"]}
    \cup {[op |-> "supports", cap |-> c] : c \in Capabilities}

\* agentCard() / supports(capability) is called: with a card in the cache the
\* call ends at once (line 273), otherwise the GET is sent (line 279).  The
\* call is recorded in cCalls: its operation and capability argument, the
\* calls that had ended when it was made (sawDone), whether it sent a GET
\* (fetched), the body of the response while response.json() is pending, how
\* its agentCard() ended (card) and how the call itself ended (outcome).
CardCall(o) ==
    /\ Len(cCalls) < MaxCardCalls
    /\ LET call == [op |-> o.op, cap |-> o.cap, sawDone |-> DoneCalls, body |-> <<>>]
       IN  IF CacheHit(cachedAgentCard)
           THEN /\ cCalls' = Append(cCalls,
                       call @@ [phase |-> "done", fetched |-> FALSE,
                                card |-> Return(cachedAgentCard),
                                outcome |-> CallOutcome(call, Return(cachedAgentCard))])
                /\ UNCHANGED cGets
           ELSE /\ cCalls' = Append(cCalls,
                       call @@ [phase |-> "fetching", fetched |-> TRUE, card |-> Pending,
                                outcome |-> Pending])
                /\ cGets' = cGets + 1
    /\ UNCHANGED cachedAgentCard
    /\ UNCHANGED <<streamVars, unaryVars>>

\* The call ends with the error e thrown inside the try of agentCard.
CardFails(i, e) ==
    cCalls' = [cCalls EXCEPT ![i].phase = "done",
                             ![i].card = Throw(WrapCardError(e)),
                             ![i].outcome = CallOutcome(cCalls[i], Throw(WrapCardError(e)))]

\* fetch rejects.
CardFetchFails(i) ==
    /\ cCalls[i].phase = "fetching"
    /\ CardFails(i, FetchFailure)
    /\ UNCHANGED <<cachedAgentCard, cGets>>
    /\ UNCHANGED <<streamVars, unaryVars>>

\* fetch resolves: a response that is not ok is thrown as an error (line 286),
\* of an ok one the body is read (response.json(), line 292).
CardFetchResponds(i, status, body) ==
    /\ cCalls[i].phase = "fetching"
    /\ IF ~ResponseOk(status)
       THEN CardFails(i, CardHttpError(status))
       ELSE cCalls' = [cCalls EXCEPT ![i].phase = "parsing", ![i].body = body]
    /\ UNCHANGED <<cachedAgentCard, cGets>>
    /\ UNCHANGED <<streamVars, unaryVars>>

\* response.json() settles: the card is cached and returned (lines 293-294),
\* or the body is no JSON text.
CardJsonSettles(i) ==
    /\ cCalls[i].phase = "parsing"
    /\ LET p == ParseJSON(cCalls[i].body)
       IN  IF ~p.ok
           THEN /\ CardFails(i, p.error)
                /\ UNCHANGED cachedAgentCard
           ELSE /\ cachedAgentCard' = p.value
                /\ cCalls' = [cCalls EXCEPT
                       ![i].phase = "done",
                       ![i].card = Return(p.value),
                       ![i].outcome = CallOutcome(cCalls[i], Return(p.value))]
    /\ UNCHANGED cGets
    /\ UNCHANGED <<streamVars, unaryVars>>

CardInit ==
    /\ cachedAgentCard = Null
    /\ cCalls = <<>>
    /\ cGets = 0

CardNext ==
    \/ \E o \in CardOps : CardCall(o)
    \/ \E i \in DOMAIN cCalls : CardFetchFails(i)
    \/ \E i \in DOMAIN cCalls, st \in CardStatuses, body \in CardBodies :
          CardFetchResponds(i, st, body)
    \/ \E i \in DOMAIN cCalls : CardJsonSettles(i)

(***************************************************************************)
(* The specifications.                                                     *)
(***************************************************************************)
Init == StreamInit /\ UnaryInit /\ CardInit

Next == StreamNext \/ UnaryNext \/ CardNext

\* Every interleaving of a streaming call, a unary call and the agent-card
\* calls of one client instance.
Spec == Init /\ [][Next]_vars

\* The calls share no state (the agent-card cache is read and written by
\* agentCard alone), so each kind of call is also specified alone, the others
\* staying as they start.
SpecStream == Init /\ [][StreamNext]_vars

SpecUnary == Init /\ [][UnaryNext]_vars

SpecCard == Init /\ [][CardNext]_vars

(***************************************************************************)
(* The claims about the streaming decoder.                                 *)
(***************************************************************************)
IsPrefix(a, b) == Len(a) <= Len(b) /\ SubSeq(b, 1, Len(a)) = a

RECURSIVE ResultsOf(_)
\* The results the result frames among fs carry, in order.
ResultsOf(fs) ==
    IF fs = <<>> THEN <<>>
    ELSE (IF FrameTable[Head(fs)].class = "result"
          THEN <<FrameTable[Head(fs)].value>> ELSE <<>>) \o ResultsOf(Tail(fs))

\* The peer sends sFrames and nothing after them.
NoTail == sText = Wire(sFrames)

\* Every frame of sFrames but the k-th is a plain result frame.
OthersPlain(k) == \A i \in DOMAIN sFrames : i # k => sFrames[i] \in PlainResults

\* The RpcError that carries a peer's error object.
PeerError(e) == RpcError(Get(e, "code"), Get(e, "message"), Get(e, "data"))

\* C1: when the frame at position k of a stream of well-formed frames carries
\* an error object, the decoder yields the results of frames 1..k-1 and no
\* other, and the sequence does not end normally: once the frames are read
\* it has raised that frame's error (code, message, data).
C1_ErrorFrameRaises ==
    \A k \in DOMAIN sFrames :
        (FrameTable[sFrames[k]].class = "error" /\ OthersPlain(k) /\ NoTail) =>
            LET before == ResultsOf(SubSeq(sFrames, 1, k - 1))
            IN  /\ IsPrefix(sDecoded, before)
                /\ sPhase # "completed"
                /\ (sPhase = "raised" /\ sError # ReadFailure) =>
                       /\ sDecoded = before
                       /\ sError = PeerError(FrameTable[sFrames[k]].error)

RECURSIVE AllDecoded(_)
\* What the decoder yields on the messages `lines` when its consumer pulls
\* to the end.
AllDecoded(lines) ==
    LET d == Drain(lines)
    IN  IF d.status = "yield" THEN d.decoded \o AllDecoded(d.rest) ELSE d.decoded

\* What the decoder yields, and the buffer it is left with, when `text` is
\* delivered as one chunk.
DecodeWhole(text) ==
    LET a == AppendChunk(<<>>, text)
    IN  [decoded |-> AllDecoded(a.lines), buffer |-> a.buffer]

\* C2: however the text is cut into chunks, the results yielded are those
\* yielded when the same text is delivered as one chunk: at every point of
\* the stream, what was yielded and is yet to be yielded from the chunks read
\* is what the text read so far yields in one chunk, and the buffer is the
\* same; so is the whole sequence when the stream has completed.
C2_ChunkingEquivalence ==
    sReader # "none" =>
        LET w == DecodeWhole(SubSeq(sText, 1, sPos))
        IN  /\ sDecoded \o AllDecoded(sLines) = w.decoded
            /\ sBuffer = w.buffer
            /\ sPhase = "completed" => sDecoded = DecodeWhole(sText).decoded

\* C2's case: a stream of three frames completed with two results or more,
\* some chunk having ended inside a line ending or a blank line.
C2_Witness ==
    /\ sPhase = "completed"
    /\ sCutInside
    /\ Len(sFrames) = 3
    /\ Len(sDecoded) >= 2

\* The frames of sFrames that are malformed.
MalformedAt == {i \in DOMAIN sFrames : FrameTable[sFrames[i]].class = "malformed"}

\* C7: in a stream of which one frame is malformed and the others are valid
\* result frames, the decoder raises no error (the sequence raises only
\* what the transport raised) and, the stream completed, has yielded the
\* results of the other frames in order.
C7_MalformedFrameSkipped ==
    (\E k \in MalformedAt : OthersPlain(k) /\ NoTail) =>
        /\ sError \in {NoError, ReadFailure}
        /\ IsPrefix(sDecoded, ResultsOf(sFrames))
        /\ sPhase = "completed" =>
               /\ sDecoded = ResultsOf(sFrames)
               /\ Len(sDecoded) = Len(sFrames) - 1

\* C7's case: a stream of three frames, the second one unparsable, completed
\* with the two results.
C7_Witness ==
    /\ sPhase = "completed"
    /\ Len(sFrames) = 3
    /\ sFrames[2] = "garbage"
    /\ NoTail
    /\ Len(sDecoded) = 2

\* The errors a peer sends in a frame.
PeerErrors == {PeerError(FrameTable[f].error) : f \in {g \in FrameNames : FrameTable[g].class = "error"}}

\* C10: every error a streaming call raises to its caller is an RpcError
\* with a numeric code, and one the client made itself (network failure,
\* non-success HTTP status, no stream) has the code -32603, as on the unary
\* path.
C10_UniformErrorShape ==
    sError # NoError =>
        /\ IsRpcError(sError)
        /\ sError.code.t = "number"
        /\ sError \notin PeerErrors => sError.code = Num(InternalErrorCode)

(***************************************************************************)
(* The claims about the unary decoder.                                     *)
(***************************************************************************)
\* The unary call has ended, on a response whose body could be read.
UnarySettled == uPhase \in {"resolved", "raised"} /\ uResponse.status # 0 /\ ~uResponse.textFails

\* What the body of the response parses to (Undefined when it does not).
UnaryParsed == ParseJSON(uResponse.body)

\* v is an envelope: an object tagged jsonrpc "2.0".
ValidEnvelope(v) == v.t = "object" /\ HasKey(v, "jsonrpc") /\ v.o.jsonrpc = Str("2.0")

\* v carries an error object.
CarriesError(v) == HasKey(v, "error") /\ v.o.error.t = "object"

\* C3: on a non-success response whose body parses as an envelope carrying
\* an error object, the call raises that error (same code, message, data);
\* on any other non-success response it raises a fault with code -32603.
C3_FailureResponseRaisesPeerError ==
    (UnarySettled /\ ~ResponseOk(uResponse.status)) =>
        /\ uPhase = "raised"
        /\ IF UnaryParsed.ok /\ CarriesError(UnaryParsed.value)
           THEN uError = PeerError(UnaryParsed.value.o.error)
           ELSE IsRpcError(uError) /\ uError.code = Num(InternalErrorCode)

\* C4: on a success response whose valid envelope carries the peer's error,
\* the call (whatever its method) raises an RpcError with the peer's code,
\* message and data; the code is the peer's, not -32603 in its place.
C4_PeerErrorVerbatim ==
    (UnarySettled /\ ResponseOk(uResponse.status) /\ UnaryParsed.ok
     /\ ValidEnvelope(UnaryParsed.value) /\ CarriesError(UnaryParsed.value)) =>
        LET e == UnaryParsed.value.o.error
        IN  /\ uPhase = "raised"
            /\ IsRpcError(uError)
            /\ uError.code = Get(e, "code")
            /\ uError.message = Get(e, "message")
            /\ uError.data = Get(e, "data")
            /\ uResult = Undefined

\* C4's case: cancelTask answered 200 with the error {code 2, "bad", data 7}
\* has raised it.
C4_Witness ==
    /\ uPhase = "raised"
    /\ uMethod = "tasks/cancel"
    /\ uResponse = [status |-> 200, body |-> TxtError2, textFails |-> FALSE]
    /\ uError = RpcError(Num(2), Str("bad"), Num(7))

\* The body parsed, and the value has neither a result nor an error.
NeitherResultNorError ==
    /\ UnaryParsed.ok
    /\ ~HasKey(UnaryParsed.value, "result")
    /\ ~HasKey(UnaryParsed.value, "error")

\* C5, as claimed: a response whose envelope has neither a result nor an
\* error makes the call raise a fault with code -32603.
C5_NoPayloadRaises ==
    (UnarySettled /\ NeitherResultNorError /\ ValidEnvelope(UnaryParsed.value)) =>
        /\ uPhase = "raised"
        /\ uError.code = Num(InternalErrorCode)

\* C5, amended: a response whose body has neither a result nor an error
\* makes the call raise a fault with code -32603, unless the HTTP response
\* is successful and the body is a valid envelope (an object tagged jsonrpc
\* "2.0"): then the call returns null and raises nothing.
C5_NoPayloadRaisesUnlessValid ==
    (UnarySettled /\ NeitherResultNorError) =>
        IF ResponseOk(uResponse.status) /\ ValidEnvelope(UnaryParsed.value)
        THEN uPhase = "resolved" /\ uResult = Null /\ uError = NoError
        ELSE /\ uPhase = "raised"
             /\ IsRpcError(uError)
             /\ uError.code = Num(InternalErrorCode)

\* C5's case: a 200 response with the body [] (no result, no error, not an
\* envelope) has raised the fault.
C5_Witness ==
    /\ uPhase = "raised"
    /\ uResponse = [status |-> 200, body |-> TxtArray, textFails |-> FALSE]
    /\ uError.code = Num(InternalErrorCode)

\* C6: on a success response whose valid envelope has no error and no result
\* field, the call (whatever its method) resolves with null and raises
\* nothing.
C6_NoPayloadResolvesNull ==
    (UnarySettled /\ ResponseOk(uResponse.status) /\ UnaryParsed.ok
     /\ ValidEnvelope(UnaryParsed.value) /\ ~HasKey(UnaryParsed.value, "error")
     /\ ~HasKey(UnaryParsed.value, "result")) =>
        /\ uPhase = "resolved"
        /\ uResult = Null
        /\ uError = NoError

\* C6's case: getTask answered 200 with {"jsonrpc":"2.0"} has resolved with
\* null.
C6_Witness ==
    /\ uPhase = "resolved"
    /\ uMethod = "tasks/get"
    /\ uResponse = [status |-> 200, body |-> TxtNoPayload, textFails |-> FALSE]
    /\ uResult = Null

(***************************************************************************)
(* The claims about the agent card.                                        *)
(***************************************************************************)
\* The second call was made after the first, an agentCard() that succeeded
\* (it returned an agent card, a JSON object), had ended; it is an
\* agentCard() too.
TwoCardCallsInSequence ==
    /\ Len(cCalls) >= 2
    /\ 1 \in cCalls[2].sawDone
    /\ cCalls[1].op = "agentCard"
    /\ cCalls[1].outcome.kind = "return"
    /\ cCalls[1].outcome.value.t = "object"
    /\ cCalls[2].op = "agentCard"

\* C8: of two agentCard() calls in sequence, the first one succeeding, one
\* GET is sent in all and the second call returns the value of the first.
C8_SecondCallUsesCache ==
    TwoCardCallsInSequence =>
        /\ cGets = 1
        /\ cCalls[1].fetched
        /\ ~cCalls[2].fetched
        /\ cCalls[2].phase = "done"
        /\ cCalls[2].outcome = Return(cCalls[1].outcome.value)

\* C8's case: the second call has returned the streaming card the first
\* call fetched.
C8_Witness ==
    /\ TwoCardCallsInSequence
    /\ cCalls[2].phase = "done"
    /\ cCalls[2].outcome.value = ParseJSON(TxtCardStreaming).value
    /\ cGets = 1

\* The card has the capability flag set.
CardHas(card, capability) ==
    \/ capability = "streaming" /\ card = ParseJSON(TxtCardStreaming).value
    \/ capability = "pushNotifications" /\ card = ParseJSON(TxtCardPush).value

\* C9: supports(capability) never raises: it resolves with false when the
\* retrieval of the card failed, and with the card's flag otherwise.
C9_SupportsNeverRaises ==
    \A i \in DOMAIN cCalls :
        (cCalls[i].op = "supports" /\ cCalls[i].phase = "done") =>
            /\ cCalls[i].outcome.kind = "return"
            /\ cCalls[i].outcome.value =
                   Bool(/\ cCalls[i].card.kind = "return"
                        /\ CardHas(cCalls[i].card.value, cCalls[i].cap))

\* C9's case: a supports("streaming") whose retrieval of the card failed has
\* resolved with false.
C9_Witness ==
    \E i \in DOMAIN cCalls :
        /\ cCalls[i].op = "supports"
        /\ cCalls[i].cap = "streaming"
        /\ cCalls[i].phase = "done"
        /\ cCalls[i].card.kind = "throw"
        /\ cCalls[i].outcome = Return(Bool(FALSE))

\* C16: in the unary decoder an exception raised while the body is read or
\* parsed reaches the caller as an error with code -32603 (a rejected
\* response.text(), a body that is no JSON text), and a protocol error
\* (RpcError) raised by the decoder reaches the caller as it is, on the
\* success branch and on the non-success branch alike.
C16_WrappedUnlessRpcError ==
    (uPhase \in {"resolved", "raised"} /\ uResponse.status # 0) =>
        LET parsed == ParseJSON(uResponse.body)
            probe == ProbeErrorBody(uResponse.body)
        IN  /\ uResponse.textFails =>
                   /\ uPhase = "raised"
                   /\ IsRpcError(uError)
                   /\ uError.code = Num(InternalErrorCode)
            /\ (~uResponse.textFails /\ ResponseOk(uResponse.status) /\ ~parsed.ok) =>
                   /\ uPhase = "raised"
                   /\ IsRpcError(uError)
                   /\ uError.code = Num(InternalErrorCode)
            /\ (~uResponse.textFails /\ ResponseOk(uResponse.status) /\ parsed.ok
                /\ ValidEnvelope(parsed.value) /\ CarriesError(parsed.value)) =>
                   /\ uPhase = "raised"
                   /\ uError = PeerError(parsed.value.o.error)
            /\ (~uResponse.textFails /\ ~ResponseOk(uResponse.status)
                /\ probe.kind = "throw" /\ IsRpcError(probe.error)) =>
                   /\ uPhase = "raised"
                   /\ uError = probe.error

(***************************************************************************)
(* The claims about the life of a streaming sequence.                      *)
(***************************************************************************)
\* The sequence has ended: the peer closed, an error was raised, or the
\* consumer abandoned it.
StreamOver == sPhase \in {"completed", "raised", "cancelled"}

\* C11: of a streaming call whose reader was acquired, the reader is released
\* exactly once, when the sequence ends (peer closes, an error is raised, the
\* consumer abandons): never before, never twice; and once the consumer has
\* abandoned the sequence no chunk is read, no frame decoded and no result
\* yielded.
C11_ReaderReleasedOnce ==
    /\ [](sReader # "none" =>
            /\ sReleases = (IF StreamOver THEN 1 ELSE 0)
            /\ sReader = (IF StreamOver THEN "released" ELSE "locked"))
    /\ [][sPhase = "cancelled" =>
            UNCHANGED <<sPhase, sPos, sBuffer, sLines, sDecoded, sReceived, sReader,
                        sReleases, sError>>]_vars

\* C11's case: the consumer abandoned the sequence after one result, with
\* frames read but not yet decoded; the reader was released once.
C11_Witness ==
    /\ sPhase = "cancelled"
    /\ sReleases = 1
    /\ sReader = "released"
    /\ Len(sReceived) = 1
    /\ Len(sLines) = 2

RECURSIVE PlainValues(_)
\* The results of the plain result frames among fs, in the order of fs.
PlainValues(fs) ==
    IF fs = <<>> THEN <<>>
    ELSE (IF Head(fs) \in PlainResults THEN <<FrameTable[Head(fs)].value>> ELSE <<>>)
         \o PlainValues(Tail(fs))

\* The frames that have arrived: those whose terminating blank line is
\* within the text read so far.
Arrived ==
    LET ks == {k \in 0 .. Len(sFrames) : Len(Wire(SubSeq(sFrames, 1, k))) <= sPos}
        n == CHOOSE k \in ks : \A j \in ks : j <= k
    IN  SubSeq(sFrames, 1, n)

\* C12: the consumer receives the results in the arrival order of their
\* frames, and none before the chunk that holds its frame's terminating blank
\* line was read: what it has received is a prefix of the results of the
\* frames that have arrived, taken in stream order, and all of them once the
\* stream has completed.
C12_ArrivalOrder ==
    /\ IsPrefix(sReceived, PlainValues(Arrived))
    /\ sPhase = "completed" => sReceived = PlainValues(sFrames)

\* C12's case: of the frames carrying 1, 2, 1 the consumer has received 1
\* and 2, the third frame not yet read to its end.
C12_Witness ==
    /\ sFrames = <<"result1", "result2", "result1">>
    /\ sReceived = <<Num(1), Num(2)>>
    /\ sPos < Len(sText)
    /\ Arrived = <<"result1", "result2">>

\* C14: a streaming sequence raises one error at most and has ended when it
\* has: an error is held exactly by a sequence that has raised, and from then
\* on the error stays the same, no result is yielded or received, no chunk is
\* read and no frame decoded.
C14_ErrorIsTerminal ==
    /\ [](sError # NoError <=> sPhase = "raised")
    /\ [][sError # NoError =>
            UNCHANGED <<sError, sPhase, sPos, sBuffer, sLines, sDecoded, sReceived>>]_vars

\* C14's case: a read was rejected after the consumer had received results
\* and with text left to read; the sequence has raised the transport's error
\* as it is.
C14_Witness ==
    /\ sPhase = "raised"
    /\ sError = ReadFailure
    /\ Len(sReceived) >= 1
    /\ sPos < Len(sText)

\* C15: when the peer closes the stream after an unterminated partial frame
\* (here a complete valid data: envelope that lacks only its blank line), the
\* decoder raises nothing and the sequence completes, having yielded the
\* results of the terminated frames and none for the partial frame, which is
\* left in the buffer.
C15_PartialFrameDiscarded ==
    (sReader # "none" /\ sText = Wire(sFrames) \o PartialFrame) =>
        /\ sError \in {NoError, ReadFailure}
        /\ IsPrefix(sDecoded, ResultsOf(sFrames))
        /\ IsPrefix(sReceived, sDecoded)
        /\ (sPhase = "reading" /\ sPos = Len(sText)) => ENABLED ReadDone
        /\ sPhase = "completed" =>
               /\ sError = NoError
               /\ sDecoded = ResultsOf(sFrames)
               /\ sReceived = sDecoded
               /\ sBuffer = PartialFrame

\* C15's case: the stream of two frames and a partial frame has completed
\* with the two results.
C15_Witness ==
    /\ sPhase = "completed"
    /\ Len(sFrames) = 2
    /\ sText = Wire(sFrames) \o PartialFrame
    /\ Len(sReceived) = 2
    /\ sBuffer = PartialFrame

\* C17: of a stream of complete valid frames that begin with `data: `, each
\* carrying a result (JSON null included) or neither a result nor an error,
\* the consumer receives one item per frame that carries a result, in order;
\* the frames with neither are skipped.
C17_EveryResultFrameYields ==
    (/\ sReader # "none"
     /\ NoTail
     /\ \A i \in DOMAIN sFrames : sFrames[i] \in PlainResults \cup {"resultNull", "noPayload"}) =>
        /\ IsPrefix(sReceived, ResultsOf(sFrames))
        /\ sPhase = "completed" => sReceived = ResultsOf(sFrames)

\* C18: of a stream of complete frames each holding a `data: ` line with a
\* valid result envelope, some after an `event: ` line, the consumer receives
\* the result of every frame, in order, as if every frame began with
\* `data: `.
C18_DataLineLocated ==
    (/\ sReader # "none"
     /\ NoTail
     /\ \A i \in DOMAIN sFrames : sFrames[i] \in PlainResults \cup {"event"}) =>
        /\ IsPrefix(sReceived, ResultsOf(sFrames))
        /\ sPhase = "completed" =>
               /\ Len(sReceived) = Len(sFrames)
               /\ sReceived = ResultsOf(sFrames)

\* C20: sendTaskSubscribe and resubscribeTask are lazy: a sequence that was
\* returned and not pulled (or abandoned before any pull) has sent no request
\* and raised nothing; a sequence that was pulled has sent one POST, no more;
\* and the POST's network failure is raised by the first pull: by a sequence
\* that sent its POST and never acquired a reader.
C20_LazyStreaming ==
    /\ sPhase \in {"idle", "created"} => sPosts = 0 /\ sError = NoError
    /\ sPhase = "cancelled" /\ sReader = "none" => sPosts = 0 /\ sError = NoError
    /\ sPhase \in {"fetching", "refusing", "reading", "yielded", "completed", "raised"} =>
           sPosts = 1
    /\ sReader # "none" => sPosts = 1
    /\ sError = NetworkError(FetchFailure) =>
           /\ sPhase = "raised"
           /\ sPosts = 1
           /\ sReader = "none"
           /\ sReceived = <<>>

\* C20's case: the first pull of a resubscribeTask sequence has raised the
\* network failure of its POST.
C20_Witness ==
    /\ sMethod = "tasks/resubscribe"
    /\ sPhase = "raised"
    /\ sError = NetworkError(FetchFailure)
    /\ sPosts = 1

(***************************************************************************)
(* The claims about the agent-card cache under concurrent calls.           *)
(***************************************************************************)
\* C13, as claimed: once the cache holds a card its value never changes,
\* whatever calls are in flight.
C13_CacheNeverChanges ==
    [][Truthy(cachedAgentCard) => cachedAgentCard' = cachedAgentCard]_vars

\* Call i is the one whose response.json() settles in this step.
Settles(i) ==
    /\ i \in DOMAIN cCalls
    /\ cCalls[i].phase = "parsing"
    /\ cCalls'[i].phase = "done"

\* C13, amended: once the cache holds a card, a call made afterwards sends no
\* GET and leaves the cache as it is; the cache is written only by a fetch
\* whose body was decoded, and a cache that holds a card changes only by the
\* write of a fetch that was already in flight when the fetch that filled
\* the cache ended (the last write wins).
C13_OnlyInFlightFetchOverwrites ==
    [][/\ (Truthy(cachedAgentCard) /\ Len(cCalls') > Len(cCalls)) =>
              /\ ~cCalls'[Len(cCalls')].fetched
              /\ cCalls'[Len(cCalls')].card = Return(cachedAgentCard)
              /\ cGets' = cGets
              /\ cachedAgentCard' = cachedAgentCard
       /\ cachedAgentCard' # cachedAgentCard =>
              \E i \in DOMAIN cCalls :
                  /\ Settles(i)
                  /\ cCalls[i].fetched
                  /\ cCalls'[i].card = Return(cachedAgentCard')
                  /\ Truthy(cachedAgentCard) =>
                         \E j \in DOMAIN cCalls \ {i} :
                             /\ cCalls[j].fetched
                             /\ cCalls[j].phase = "done"
                             /\ cCalls[j].card = Return(cachedAgentCard)
                             /\ j \notin cCalls[i].sawDone]_vars

\* C13's case: two first fetches were in flight together, both succeeded
\* with different cards, and the cache holds the card of the one that
\* settled last while the other call returned the other card.
C13_Witness ==
    /\ Len(cCalls) = 2
    /\ \A i \in {1, 2} : /\ cCalls[i].fetched
                         /\ cCalls[i].phase = "done"
                         /\ cCalls[i].card.kind = "return"
                         /\ Truthy(cCalls[i].card.value)
    /\ cCalls[1].card # cCalls[2].card
    /\ cCalls[2].sawDone = {}
    /\ cachedAgentCard = cCalls[1].card.value

\* Call i fails in this step: its agentCard() ends with an error.
FailsNow(i) ==
    /\ i \in DOMAIN cCalls
    /\ cCalls[i].card.kind = "pending"
    /\ cCalls'[i].card.kind = "throw"

\* C19: an agentCard() that fails (rejected fetch, non-success status,
\* undecodable body) raises an error with code -32603 and leaves the cache
\* as it was, so the cache is empty as long as no call has succeeded; a call
\* sends a GET exactly when the cache is empty as it is made, so the GETs
\* sent are as many as the calls made on an empty cache.
C19_FailureLeavesCacheEmpty ==
    /\ [](\A i \in DOMAIN cCalls :
              cCalls[i].card.kind = "throw" =>
                  /\ cCalls[i].phase = "done"
                  /\ IsRpcError(cCalls[i].card.error)
                  /\ cCalls[i].card.error.code = Num(InternalErrorCode)
                  /\ cCalls[i].op = "agentCard" => cCalls[i].outcome = cCalls[i].card)
    /\ []((\A i \in DOMAIN cCalls : cCalls[i].card.kind # "return") =>
              cachedAgentCard = Null)
    /\ [](cGets = Cardinality({i \in DOMAIN cCalls : cCalls[i].fetched}))
    /\ [][(\E i \in DOMAIN cCalls : FailsNow(i)) =>
              cachedAgentCard' = cachedAgentCard /\ cGets' = cGets]_vars
    /\ [][Len(cCalls') > Len(cCalls) =>
              /\ cCalls'[Len(cCalls')].fetched = ~Truthy(cachedAgentCard)
              /\ cGets' = cGets + (IF Truthy(cachedAgentCard) THEN 0 ELSE 1)]_vars

\* C19's case: the first call, an agentCard(), failed on an undecodable
\* body; the next call, made after it had ended, sent a second GET.
C19_Witness ==
    /\ Len(cCalls) = 2
    /\ cCalls[1].op = "agentCard"
    /\ cCalls[1].body = TxtGarbage
    /\ cCalls[1].outcome.kind = "throw"
    /\ cCalls[1].outcome.error.code = Num(InternalErrorCode)
    /\ 1 \in cCalls[2].sawDone
    /\ cCalls[2].fetched
    /\ cGets = 2
    /\ cachedAgentCard = Null

====
